---------------------------- MODULE Spec2Model ----------------------------
(***************************************************************************)
(* A model of app.py of event-flyer-calendar: the OCRProcessor pipeline    *)
(* (preprocess_image, extract_text, extract_event_info, parse_date,        *)
(* get_structured_data), the upload_file handler that drives it and the    *)
(* update_event handler.                                                   *)
(*                                                                         *)
(* Texts are TLA+ strings; a character is a string of length one.  The     *)
(* en dash (U+2013) of the time patterns is written "~" because a module   *)
(* holds ASCII only.                                                       *)
(***************************************************************************)
EXTENDS Integers, Sequences, FiniteSets, TLC

VARIABLES
    lexicon,         \* extraction runs: the kind of flyer text being recognized
    nfrags,          \* extraction runs: how many fragments raw_text is made of
    raw_text,        \* OCRProcessor.raw_text of the processor under extraction
    extracted_info,  \* OCRProcessor.extracted_info of that processor
    stage,           \* "recognizing" until extract_event_info has run, then "extracted"
    files,           \* storage: path |-> [kind, by] of every file that exists
    uuids,           \* the values uuid4() has returned
    run,             \* per upload request: where upload_file stands, and its locals
    events,          \* the Event table, in order of insertion
    foreign,         \* the accesses to a file another request wrote: [by, op, path, owner]
    infoOf,          \* extract_event_info's result for each text the recognizer returns
    last,            \* the last update_event request: what it asked and what came of it
    recognized,      \* processor calls: [call, text] of each call of the recognizer, in order
    returned         \* processor calls: what get_structured_data returned last

extractVars == <<lexicon, nfrags, raw_text, extracted_info, stage, recognized, returned>>

pipeVars == <<files, uuids, run, foreign>>

vars == <<lexicon, nfrags, raw_text, extracted_info, stage,
          files, uuids, run, events, foreign, infoOf, last, recognized, returned>>

\* Python's None.  TLC compares strings with strings only, so None is a
\* reserved string that no text of the model equals or contains.
None == "<None>"

(***************************************************************************)
(* Characters and character classes of Python's re module.                 *)
(***************************************************************************)
Ch(s, i) == SubSeq(s, i, i)

StrSet(s) == {Ch(s, i) : i \in 1..Len(s)}

UpperChars == "ABCDEFGHIJKLMNOPQRSTUVWXYZ"
LowerChars == "abcdefghijklmnopqrstuvwxyz"
DigitChars == "0123456789"

\* \d
Digit == StrSet(DigitChars)
\* [A-Za-z]
Letter == StrSet(UpperChars) \cup StrSet(LowerChars)
\* \s, and the characters str.strip() and str.split() treat as whitespace
Space == {" ", "\n", "\t", "\r", "\f"}
\* \w, the characters on the word side of \b
WordCh == Letter \cup Digit \cup {"_"}
\* [A-Za-z0-9\s&]
NameCh == Letter \cup Digit \cup Space \cup {"&"}
\* [A-Za-z0-9\s,]
AddrCh == Letter \cup Digit \cup Space \cup {","}

LowerOf == [c \in StrSet(UpperChars) |->
              Ch(LowerChars, CHOOSE k \in 1..Len(UpperChars) : Ch(UpperChars, k) = c)]

\* str.lower() on one character, the folding re.IGNORECASE applies
LowerCh(c) == IF c \in DOMAIN LowerOf THEN LowerOf[c] ELSE c

\* the literal lit (written in lower case) stands at position i of text,
\* letters compared without regard to case
LitAt(text, i, lit) ==
    /\ i + Len(lit) - 1 <= Len(text)
    /\ \A j \in 1..Len(lit) : LowerCh(Ch(text, i + j - 1)) = Ch(lit, j)

(***************************************************************************)
(* A backtracking matcher with the semantics of Python's re: alternatives  *)
(* are tried left to right, repetitions are greedy, and the first way that *)
(* lets the rest of the pattern match is the match.  A pattern is a        *)
(* sequence of nodes; literals are written in lower case and compared     *)
(* without regard to case (re.IGNORECASE).                                 *)
(***************************************************************************)
Lit(s) == [t |-> "lit", s |-> s]
\* a character class repeated lo..hi times, greedy
Rep(S, lo, hi) == [t |-> "cls", c |-> S, lo |-> lo, hi |-> hi, inf |-> FALSE]
\* a character class repeated lo or more times, greedy
RepInf(S, lo) == [t |-> "cls", c |-> S, lo |-> lo, hi |-> lo, inf |-> TRUE]
\* (?:a|b|...), each alternative a pattern
Alt(as) == [t |-> "alt", as |-> as]
\* (?:...)?
Opt(r) == [t |-> "alt", as |-> <<r, <<>>>>]
\* \b
WB == [t |-> "wb"]
\* the opening and closing parenthesis of capture group g
GrpOpen(g) == [t |-> "open", g |-> g]
GrpClose(g) == [t |-> "close", g |-> g]

NoMatch == [ok |-> FALSE]

\* the number of capture groups a match records
NumGroups == 3

NoGroups == [g \in 1..NumGroups |-> <<0, 0>>]

IsWordAt(text, i) == i >= 1 /\ i <= Len(text) /\ Ch(text, i) \in WordCh

\* \b holds between the characters i-1 and i
AtBoundary(text, i) == IsWordAt(text, i - 1) # IsWordAt(text, i)

\* how many characters from position i on are in S, counting at most limit
RunLen(text, S, i, limit) ==
    LET stops == {k \in 0..limit : k = limit \/ i + k > Len(text) \/ Ch(text, i + k) \notin S}
    IN CHOOSE k \in stops : \A j \in stops : k <= j

RECURSIVE MatchHere(_, _, _, _)
RECURSIVE TryAlt(_, _, _, _, _, _)

\* The first way, in backtracking order, that pattern rs matches text from
\* position i on: [ok, e (the position after the match), cap (the groups)].
MatchHere(rs, text, i, cap) ==
    IF rs = <<>> THEN [ok |-> TRUE, e |-> i, cap |-> cap]
    ELSE LET n == Head(rs)
             rest == Tail(rs)
         IN CASE n.t = "lit" ->
                   IF LitAt(text, i, n.s) THEN MatchHere(rest, text, i + Len(n.s), cap)
                   ELSE NoMatch
              [] n.t = "cls" ->
                   \* greedy: the longest run that lets the rest match
                   LET most == RunLen(text, n.c, i, IF n.inf THEN Len(text) ELSE n.hi)
                       fits == {k \in n.lo..most : MatchHere(rest, text, i + k, cap).ok}
                   IN IF fits = {} THEN NoMatch
                      ELSE MatchHere(rest, text,
                                     i + (CHOOSE k \in fits : \A j \in fits : j <= k), cap)
              [] n.t = "alt" -> TryAlt(n.as, 1, rest, text, i, cap)
              [] n.t = "wb" ->
                   IF AtBoundary(text, i) THEN MatchHere(rest, text, i, cap)
                   ELSE NoMatch
              [] n.t = "open" ->
                   MatchHere(rest, text, i, [cap EXCEPT ![n.g] = <<i, i>>])
              [] n.t = "close" ->
                   MatchHere(rest, text, i, [cap EXCEPT ![n.g] = <<cap[n.g][1], i>>])

\* alternation: the alternatives in the order written
TryAlt(as, a, rest, text, i, cap) ==
    IF a > Len(as) THEN NoMatch
    ELSE LET r == MatchHere(as[a] \o rest, text, i, cap)
         IN IF r.ok THEN r ELSE TryAlt(as, a + 1, rest, text, i, cap)

\* what re.findall reports for one match: group 1 if the pattern has a
\* group, the whole match otherwise
Reported(text, i, r, hasGroup) ==
    IF hasGroup THEN SubSeq(text, r.cap[1][1], r.cap[1][2] - 1)
    ELSE SubSeq(text, i, r.e - 1)

RECURSIVE FindAllFrom(_, _, _, _)
\* the scan of re.findall from position pos on: the next match is the one
\* at the first position where the pattern matches, and the scan goes on
\* where that match ended
FindAllFrom(rs, hasGroup, text, pos) ==
    LET starts == {i \in pos..(Len(text) + 1) : MatchHere(rs, text, i, NoGroups).ok}
    IN IF starts = {} THEN <<>>
       ELSE LET i == CHOOSE x \in starts : \A y \in starts : x <= y
                r == MatchHere(rs, text, i, NoGroups)
            IN <<Reported(text, i, r, hasGroup)>>
                 \o FindAllFrom(rs, hasGroup, text, IF r.e > i THEN r.e ELSE i + 1)

\* re.findall(pattern, text, re.IGNORECASE): the non-overlapping matches,
\* scanning the text from left to right
FindAll(p, text) == FindAllFrom(p.rs, p.hasGroup, text, 1)

(***************************************************************************)
(* The patterns of extract_event_info.                                     *)
(***************************************************************************)
Pattern(rs, hasGroup) == [rs |-> rs, hasGroup |-> hasGroup]

\* (?:Jan(?:uary)?|Feb(?:ruary)?|...|Dec(?:ember)?)
Month ==
    Alt(<< <<Lit("jan"), Opt(<<Lit("uary")>>)>>,
           <<Lit("feb"), Opt(<<Lit("ruary")>>)>>,
           <<Lit("mar"), Opt(<<Lit("ch")>>)>>,
           <<Lit("apr"), Opt(<<Lit("il")>>)>>,
           <<Lit("may")>>,
           <<Lit("jun"), Opt(<<Lit("e")>>)>>,
           <<Lit("jul"), Opt(<<Lit("y")>>)>>,
           <<Lit("aug"), Opt(<<Lit("ust")>>)>>,
           <<Lit("sep"), Opt(<<Lit("tember")>>)>>,
           <<Lit("oct"), Opt(<<Lit("ober")>>)>>,
           <<Lit("nov"), Opt(<<Lit("ember")>>)>>,
           <<Lit("dec"), Opt(<<Lit("ember")>>)>> >>)

\* (?:st|nd|rd|th)?
Ordinal == Opt(<<Alt(<< <<Lit("st")>>, <<Lit("nd")>>, <<Lit("rd")>>, <<Lit("th")>> >>)>>)

\* (?:Monday|Tuesday|Wednesday|Thursday|Friday|Saturday|Sunday)
Weekday ==
    Alt(<< <<Lit("monday")>>, <<Lit("tuesday")>>, <<Lit("wednesday")>>,
           <<Lit("thursday")>>, <<Lit("friday")>>, <<Lit("saturday")>>,
           <<Lit("sunday")>> >>)

date_patterns ==
    << Pattern(<<WB, Month, RepInf(Space, 1), Rep(Digit, 1, 2), Ordinal,
                 Opt(<<Lit(",")>>), RepInf(Space, 1), Rep(Digit, 4, 4), WB>>, FALSE),
       Pattern(<<WB, Rep(Digit, 1, 2), Rep({"/", "-"}, 1, 1), Rep(Digit, 1, 2),
                 Rep({"/", "-"}, 1, 1), Rep(Digit, 2, 4), WB>>, FALSE),
       Pattern(<<WB, Weekday, Opt(<<Lit(",")>>), RepInf(Space, 1), Month,
                 RepInf(Space, 1), Rep(Digit, 1, 2), Ordinal, WB>>, FALSE) >>

\* (?:am|pm|AM|PM)
AmPm == Alt(<< <<Lit("am")>>, <<Lit("pm")>>, <<Lit("am")>>, <<Lit("pm")>> >>)

\* (?:-|to|U+2013)
RangeSep == Alt(<< <<Lit("-")>>, <<Lit("to")>>, <<Lit("~")>> >>)

\* \d{1,2}:\d{2}
HourMin == <<Rep(Digit, 1, 2), Lit(":"), Rep(Digit, 2, 2)>>

time_patterns ==
    << Pattern(<<WB>> \o HourMin \o <<RepInf(Space, 0), AmPm, WB>>, FALSE),
       Pattern(<<WB, Rep(Digit, 1, 2), RepInf(Space, 0), AmPm, WB>>, FALSE),
       Pattern(<<WB>> \o HourMin \o <<RepInf(Space, 0), RangeSep, RepInf(Space, 0)>>
                 \o HourMin \o <<RepInf(Space, 0), AmPm, WB>>, FALSE),
       Pattern(<<WB, Rep(Digit, 1, 2), RepInf(Space, 0), AmPm, RepInf(Space, 0),
                 RangeSep, RepInf(Space, 0), Rep(Digit, 1, 2), RepInf(Space, 0),
                 AmPm, WB>>, FALSE) >>

\* (?:Street|St|Avenue|Ave|...|Parkway|Pkwy)
StreetSuffix ==
    Alt(<< <<Lit("street")>>, <<Lit("st")>>, <<Lit("avenue")>>, <<Lit("ave")>>,
           <<Lit("road")>>, <<Lit("rd")>>, <<Lit("boulevard")>>, <<Lit("blvd")>>,
           <<Lit("lane")>>, <<Lit("ln")>>, <<Lit("drive")>>, <<Lit("dr")>>,
           <<Lit("court")>>, <<Lit("ct")>>, <<Lit("plaza")>>, <<Lit("plz")>>,
           <<Lit("square")>>, <<Lit("sq")>>, <<Lit("highway")>>, <<Lit("hwy")>>,
           <<Lit("broadway")>>, <<Lit("parkway")>>, <<Lit("pkwy")>> >>)

\* (?:Club|Venue|Bar|...|Cafe|Restaurant)
VenueType ==
    Alt(<< <<Lit("club")>>, <<Lit("venue")>>, <<Lit("bar")>>, <<Lit("lounge")>>,
           <<Lit("hall")>>, <<Lit("center")>>, <<Lit("theatre")>>, <<Lit("theater")>>,
           <<Lit("arena")>>, <<Lit("stadium")>>, <<Lit("gallery")>>, <<Lit("museum")>>,
           <<Lit("cafe")>>, <<Lit("restaurant")>> >>)

location_patterns ==
    << Pattern(<<WB, RepInf(Digit, 1), RepInf(Space, 1), RepInf(AddrCh, 1),
                 StreetSuffix, WB>>, FALSE),
       Pattern(<<WB, Alt(<< <<Lit("at")>>, <<Lit("@")>> >>), RepInf(Space, 1),
                 GrpOpen(1), RepInf(NameCh, 1), VenueType, GrpClose(1), WB>>, TRUE) >>

\* \b<keyword>\s+([A-Za-z0-9\s&]+)\b
HostPattern(keyword) ==
    Pattern(<<WB, Lit(keyword), RepInf(Space, 1), GrpOpen(1), RepInf(NameCh, 1),
              GrpClose(1), WB>>, TRUE)

host_patterns ==
    << HostPattern("dj"), HostPattern("featuring"), HostPattern("presented by"),
       HostPattern("hosted by") >>

(***************************************************************************)
(* Python string methods used by extract_event_info.                       *)
(***************************************************************************)
RECURSIVE SplitOn(_, _)
\* s.split(sep) for a one-character sep: the pieces between separators
SplitOn(s, sep) ==
    LET hits == {i \in 1..Len(s) : Ch(s, i) = sep}
    IN IF hits = {} THEN <<s>>
       ELSE LET i == CHOOSE h \in hits : \A g \in hits : h <= g
            IN <<SubSeq(s, 1, i - 1)>> \o SplitOn(SubSeq(s, i + 1, Len(s)), sep)

\* s.lstrip()
LStrip(s) == SubSeq(s, RunLen(s, Space, 1, Len(s)) + 1, Len(s))

\* s.rstrip()
RStrip(s) ==
    LET ends == {n \in 0..Len(s) : \A i \in (n + 1)..Len(s) : Ch(s, i) \in Space}
    IN SubSeq(s, 1, CHOOSE n \in ends : \A m \in ends : n <= m)

\* s.strip()
Strip(s) == RStrip(LStrip(s))

RECURSIVE SplitWords(_)
\* s.split(): the maximal runs of non-whitespace characters
SplitWords(s) ==
    LET t == LStrip(s)
    IN IF t = "" THEN <<>>
       ELSE LET n == RunLen(t, StrSet(t) \ Space, 1, Len(t))
            IN <<SubSeq(t, 1, n)>> \o SplitWords(SubSeq(t, n + 1, Len(t)))

\* Replace cutting out the first occurrence only, as s.replace(old, '', 1)
Replace_FirstOnly(s, old) ==
    LET hits == {i \in 1..(Len(s) - Len(old) + 1) : SubSeq(s, i, i + Len(old) - 1) = old}
    IN IF hits = {} THEN s
       ELSE LET i == CHOOSE h \in hits : \A g \in hits : h <= g
            IN SubSeq(s, 1, i - 1) \o SubSeq(s, i + Len(old), Len(s))

RECURSIVE Replace(_, _)
\* s.replace(old, ''), old non-empty: the first occurrence is cut out and
\* the search goes on behind it, so the occurrences removed do not overlap
Replace(s, old) ==
    LET hits == {i \in 1..(Len(s) - Len(old) + 1) : SubSeq(s, i, i + Len(old) - 1) = old}
    IN IF hits = {} THEN s
       ELSE LET i == CHOOSE h \in hits : \A g \in hits : h <= g
            IN SubSeq(s, 1, i - 1) \o Replace(SubSeq(s, i + Len(old), Len(s)), old)

RECURSIVE Join(_, _)
\* sep.join(parts)
Join(parts, sep) ==
    IF parts = <<>> THEN ""
    ELSE IF Len(parts) = 1 THEN parts[1]
         ELSE parts[1] \o sep \o Join(Tail(parts), sep)

\* Python truthiness of an optional string: neither None nor ''
Truthy(v) == v # None /\ v # ""

(***************************************************************************)
(* OCRProcessor.extract_event_info, field by field.                        *)
(***************************************************************************)
\* OCRProcessor.__init__: extracted_info
NoInfo ==
    [event_name |-> None, event_location |-> None, event_date |-> None,
     event_time |-> None, event_description |-> None, event_hosts |-> None]

\* NonEmptyLines keeping the lines as they are, not stripped
NonEmptyLines_Unstripped(text) ==
    LET IsNonEmpty(line) == Strip(line) # ""
    IN SelectSeq(SplitOn(text, "\n"), IsNonEmpty)

\* [line.strip() for line in text.split('\n') if line.strip()]
NonEmptyLines(text) ==
    LET lines == SplitOn(text, "\n")
        IsNonEmpty(line) == Strip(line) # ""
        kept == SelectSeq(lines, IsNonEmpty)
    IN [k \in 1..Len(kept) |-> Strip(kept[k])]

\* NameLine with "or" in the place of "and"
NameLine_Or(line) == Len(SplitWords(line)) > 2 \/ Len(line) > 10

\* len(line.split()) > 2 and len(line) > 10
NameLine(line) == Len(SplitWords(line)) > 2 /\ Len(line) > 10

\* the event name: the first line that passes NameLine, else the first
\* non-empty line if the name is still unset; prior is the value so far
ExtractName(text, prior) ==
    LET non_empty_lines == NonEmptyLines(text)
        good == {k \in 1..Len(non_empty_lines) : NameLine(non_empty_lines[k])}
        looped == IF good = {} THEN prior
                  ELSE non_empty_lines[CHOOSE k \in good : \A j \in good : k <= j]
    IN IF non_empty_lines = <<>> THEN prior
       ELSE IF ~Truthy(looped) THEN non_empty_lines[1] ELSE looped

RECURSIVE FirstOf(_, _, _, _)
\* for pattern in patterns: matches = re.findall(...); if matches: take
\* matches[0] and break.  prior is the value when no pattern matches.
FirstOf(patterns, k, text, prior) ==
    IF k > Len(patterns) THEN prior
    ELSE LET matches == FindAll(patterns[k], text)
         IN IF matches # <<>> THEN matches[1]
            ELSE FirstOf(patterns, k + 1, text, prior)

\* ExtractDate without the break: the last family that matches wins
ExtractDate_NoBreak(text, prior) ==
    LET m1 == FindAll(date_patterns[1], text)
        m2 == FindAll(date_patterns[2], text)
        m3 == FindAll(date_patterns[3], text)
    IN IF m3 # <<>> THEN m3[1]
       ELSE IF m2 # <<>> THEN m2[1]
       ELSE IF m1 # <<>> THEN m1[1] ELSE prior

ExtractDate(text, prior) == FirstOf(date_patterns, 1, text, prior)

\* ExtractTime with the two range patterns listed before the single times
ExtractTime_RangesFirst(text, prior) ==
    FirstOf(<<time_patterns[3], time_patterns[4], time_patterns[1], time_patterns[2]>>,
            1, text, prior)

ExtractTime(text, prior) == FirstOf(time_patterns, 1, text, prior)

ExtractLocation(text, prior) == FirstOf(location_patterns, 1, text, prior)

RECURSIVE AllOf(_, _, _)
\* hosts = []; for pattern in patterns: hosts.extend(re.findall(...))
AllOf(patterns, k, text) ==
    IF k > Len(patterns) THEN <<>>
    ELSE FindAll(patterns[k], text) \o AllOf(patterns, k + 1, text)

\* the list hosts of extract_event_info
HostMatches(text) == AllOf(host_patterns, 1, text)

ExtractHosts(text, prior) ==
    LET hosts == HostMatches(text)
    IN IF hosts # <<>> THEN Join(hosts, ", ") ELSE prior

RECURSIVE RemoveUsed(_, _)
\* for text in used_text: remaining_text = remaining_text.replace(text, '')
RemoveUsed(remaining_text, used_text) ==
    IF used_text = <<>> THEN remaining_text
    ELSE RemoveUsed(Replace(remaining_text, Head(used_text)), Tail(used_text))

\* the lines of more than three words of the text left over, joined by ' '
DescriptionOf(remaining_text) ==
    LET description_lines == NonEmptyLines(remaining_text)
        Long(line) == Len(SplitWords(line)) > 3
    IN Join(SelectSeq(description_lines, Long), " ")

ExtractDescription(text, info) ==
    LET used_text == SelectSeq(<<info.event_name, info.event_date, info.event_time,
                              info.event_location, info.event_hosts>>, Truthy)
        description == DescriptionOf(RemoveUsed(text, used_text))
    IN IF description # "" THEN description ELSE info.event_description

\* extract_event_info after raw_text is there: the new extracted_info
ExtractEventInfo(text, info) ==
    LET partial == [info EXCEPT
                      !.event_name = ExtractName(text, info.event_name),
                      !.event_date = ExtractDate(text, info.event_date),
                      !.event_time = ExtractTime(text, info.event_time),
                      !.event_location = ExtractLocation(text, info.event_location),
                      !.event_hosts = ExtractHosts(text, info.event_hosts)]
    IN [partial EXCEPT !.event_description = ExtractDescription(text, partial)]

(***************************************************************************)
(* Paths: os.path.splitext, werkzeug's secure_filename, allowed_file.      *)
(***************************************************************************)
\* the last position of character c in s, 0 if there is none
LastIndex(s, c) ==
    LET hits == {i \in 1..Len(s) : Ch(s, i) = c}
    IN IF hits = {} THEN 0 ELSE CHOOSE h \in hits : \A g \in hits : g <= h

\* os.path.splitext(path)[0]: the path without its extension.  The
\* extension starts at the last dot of the last path component, unless only
\* dots stand before it in that component.
SplitextRoot(path) ==
    LET slash == LastIndex(path, "/")
        dot == LastIndex(path, ".")
    IN IF dot > slash /\ \E i \in (slash + 1)..(dot - 1) : Ch(path, i) # "."
       THEN SubSeq(path, 1, dot - 1)
       ELSE path

\* preprocess_image: temp_path
ProcessedPath(image_path) == SplitextRoot(image_path) \o "_processed.png"

\* filename.rsplit('.', 1)[1].lower() in ALLOWED_EXTENSIONS
ALLOWED_EXTENSIONS == {"png", "jpg", "jpeg", "gif"}

RECURSIVE LowerStr(_)
\* s.lower()
LowerStr(s) == IF s = "" THEN "" ELSE LowerCh(Ch(s, 1)) \o LowerStr(Tail(s))

allowed_file(filename) ==
    /\ LastIndex(filename, ".") > 0
    /\ LowerStr(SubSeq(filename, LastIndex(filename, ".") + 1, Len(filename)))
          \in ALLOWED_EXTENSIONS

RECURSIVE KeepSafe(_)
\* the characters secure_filename keeps: [A-Za-z0-9_.-]
KeepSafe(s) ==
    IF s = "" THEN ""
    ELSE (IF Ch(s, 1) \in Letter \cup Digit \cup {"_", ".", "-"} THEN Ch(s, 1) ELSE "")
           \o KeepSafe(Tail(s))

\* s.strip('._')
StripDots(s) ==
    LET inner == {i \in 1..Len(s) : Ch(s, i) \notin {".", "_"}}
    IN IF inner = {} THEN ""
       ELSE SubSeq(s, CHOOSE i \in inner : \A j \in inner : i <= j,
                      CHOOSE i \in inner : \A j \in inner : j <= i)

\* werkzeug.utils.secure_filename on an ASCII name: path separators become
\* blanks, runs of whitespace become "_", unsafe characters are dropped,
\* leading and trailing dots and underscores are stripped
secure_filename(filename) ==
    LET blanked == [i \in 1..Len(filename) |->
                      IF Ch(filename, i) \in {"/", "\\"} THEN " " ELSE Ch(filename, i)]
        flat == Join(blanked, "")
    IN StripDots(KeepSafe(Join(SplitWords(flat), "_")))

\* app.config['UPLOAD_FOLDER'], as a path
UPLOAD_FOLDER == "uploads"

\* StoredName without the uuid prefix
StoredName_NoUuid(uuid, original_filename) == original_filename

\* f"{uuid.uuid4()}_{original_filename}"
StoredName(uuid, original_filename) == uuid \o "_" \o original_filename

\* os.path.join(app.config['UPLOAD_FOLDER'], filename)
UploadPath(filename) == UPLOAD_FOLDER \o "/" \o filename

(***************************************************************************)
(* upload_file and the OCRProcessor it drives, one step per file access.   *)
(* Any number of requests may be in flight; request r's locals are run[r]. *)
(***************************************************************************)
Runs == {1, 2}

\* what uuid4() can return; two calls are taken never to return the same
Uuids == {"0a", "1b", "2c"}

\* the filenames of the uploads; "" is the empty part a browser submits
UploadNames == {"a.png", "a.jpg", "a_processed.png", "a.txt", ""}

\* what the uploaded bytes are: an image cv2 decodes, or not
Contents == {"image", "garbage"}

\* the texts the recognizer returns
PipelineTexts == {"", "Jazz Night Live Show\nDJ Max, featuring Luna\nDec 25, 2024 9:00 pm"}

\* the calendar dates dateutil's parser and strptime produce
Date(y, m, d) == [year |-> y, month |-> m, day |-> d]

\* what dateutil.parser.parse(text, fuzzy=True) does is not modelled: it
\* returns one of these dates or raises
ParsedDates == {Date(2024, 12, 25)}

NoDate == [year |-> 0, month |-> 0, day |-> 0]

NoResponse == [status |-> 0]

\* a request before it arrives
NewRun ==
    [pc |-> "new", file_path |-> None, image_path |-> None, temp_path |-> None,
     raw_text |-> None, extracted_info |-> NoInfo, data |-> None, failure |-> None,
     response |-> NoResponse]

NoUpdate == [status |-> 0]

InitPipe ==
    /\ files = <<>>
    /\ uuids = {}
    /\ run = [r \in Runs |-> NewRun]
    /\ foreign = {}

Exists(path) == path \in DOMAIN files

\* the file at path after it was written by run r
Written(path, kind, r) == [p \in DOMAIN files \cup {path} |->
                             IF p = path THEN [kind |-> kind, by |-> r] ELSE files[p]]

\* the storage without the file at path
Removed(path) == [p \in DOMAIN files \ {path} |-> files[p]]

\* foreign after run r accessed path: the access is recorded if the file
\* there was written by another request
Accessed(r, op, path) ==
    IF Exists(path) /\ files[path].by # r
    THEN foreign \cup {[by |-> r, op |-> op, path |-> path, owner |-> files[path].by]}
    ELSE foreign

\* jsonify({'error': ...}), status
ErrorResponse(status, error) == [status |-> status, error |-> error]

\* Raise after a partial Event row was added and committed
Raise_PartialEvent(r, failure) ==
    /\ run' = [run EXCEPT ![r].pc = "failed", ![r].failure = failure,
                          ![r].response = ErrorResponse(500, "Error processing image")]
    /\ events' = Append(events, [id |-> Len(events) + 1, image_path |-> run[r].file_path])

\* the except clause of upload_file: the exception becomes a 500 response;
\* nothing was added to the session, so the Event table is as before
Raise(r, failure) ==
    /\ run' = [run EXCEPT ![r].pc = "failed", ![r].failure = failure,
                          ![r].response = ErrorResponse(500, "Error processing image")]
    /\ events' = events

\* upload_file up to file.save: the early returns, else the file is stored
\* under a fresh uuid and the processor is constructed
Upload(r, hasFile, filename, content, uuid) ==
    /\ run[r].pc = "new"
    /\ IF ~hasFile
       THEN /\ run' = [run EXCEPT ![r].pc = "rejected",
                                  ![r].response = ErrorResponse(400, "No file part")]
            /\ UNCHANGED <<files, uuids, foreign>>
       ELSE IF filename = ""
       THEN /\ run' = [run EXCEPT ![r].pc = "rejected",
                                  ![r].response = ErrorResponse(400, "No selected file")]
            /\ UNCHANGED <<files, uuids, foreign>>
       ELSE IF ~allowed_file(filename)
       THEN /\ run' = [run EXCEPT ![r].pc = "rejected",
                                  ![r].response = ErrorResponse(400, "File type not allowed")]
            /\ UNCHANGED <<files, uuids, foreign>>
       ELSE LET stored == StoredName(uuid, secure_filename(filename))
                file_path == UploadPath(stored)
            IN /\ uuid \notin uuids
               /\ uuids' = uuids \cup {uuid}
               /\ files' = Written(file_path, content, r)
               /\ foreign' = Accessed(r, "write", file_path)
               /\ run' = [run EXCEPT ![r].pc = "Created",
                                     ![r].file_path = file_path,
                                     ![r].image_path = file_path]
    /\ UNCHANGED <<events, extractVars, infoOf, last>>

\* preprocess_image, cv2.imread to cv2.threshold: imread returns None for
\* a file it cannot decode and cv2.cvtColor raises on None
Decode(r) ==
    /\ run[r].pc = "Created"
    /\ foreign' = Accessed(r, "read", run[r].image_path)
    /\ IF Exists(run[r].image_path) /\ files[run[r].image_path].kind = "image"
       THEN /\ run' = [run EXCEPT ![r].pc = "Decoded"]
            /\ UNCHANGED events
       ELSE Raise(r, "ImageDecodeError")
    /\ UNCHANGED <<files, uuids, extractVars, infoOf, last>>

\* preprocess_image, cv2.imwrite(temp_path, binary)
WriteProcessed(r) ==
    /\ run[r].pc = "Decoded"
    /\ LET temp_path == ProcessedPath(run[r].image_path)
       IN /\ files' = Written(temp_path, "image", r)
          /\ foreign' = Accessed(r, "write", temp_path)
          /\ run' = [run EXCEPT ![r].pc = "Normalized", ![r].temp_path = temp_path]
    /\ UNCHANGED <<uuids, events, extractVars, infoOf, last>>

\* extract_text, pytesseract.image_to_string: it returns a text or raises
\* (no such file, not an image, the engine fails)
Ocr(r, ok, text) ==
    /\ run[r].pc = "Normalized"
    /\ foreign' = Accessed(r, "read", run[r].temp_path)
    /\ IF ok /\ Exists(run[r].temp_path) /\ files[run[r].temp_path].kind = "image"
       THEN /\ run' = [run EXCEPT ![r].pc = "Recognized", ![r].raw_text = text]
            /\ UNCHANGED events
       ELSE Raise(r, "OcrFailure")
    /\ UNCHANGED <<files, uuids, extractVars, infoOf, last>>

\* extract_text, os.path.exists(processed_image_path)
CheckExists(r) ==
    /\ run[r].pc = "Recognized"
    /\ run' = [run EXCEPT ![r].pc = IF Exists(run[r].temp_path) THEN "Removing"
                                    ELSE "Cleaned"]
    /\ UNCHANGED <<files, uuids, events, foreign, extractVars, infoOf, last>>

\* extract_text, os.remove(processed_image_path): raises if the file is gone
Remove(r) ==
    /\ run[r].pc = "Removing"
    /\ foreign' = Accessed(r, "remove", run[r].temp_path)
    /\ IF Exists(run[r].temp_path)
       THEN /\ files' = Removed(run[r].temp_path)
            /\ run' = [run EXCEPT ![r].pc = "Cleaned"]
            /\ UNCHANGED events
       ELSE /\ Raise(r, "FileNotFoundError")
            /\ UNCHANGED files
    /\ UNCHANGED <<uuids, extractVars, infoOf, last>>

\* parse_date: None without a date text, else what dateutil returns, None
\* if it raises
parse_date(info, parsed) == IF ~Truthy(info.event_date) THEN NoDate ELSE parsed

\* get_structured_data: the dictionary returned
StructuredData(raw, info, parsed) ==
    [raw_text |-> raw, event_name |-> info.event_name,
     event_location |-> info.event_location, event_date |-> parse_date(info, parsed),
     event_time |-> info.event_time, event_description |-> info.event_description,
     event_hosts |-> info.event_hosts]

\* Event(...), db.session.add, db.session.commit: the row stored
NewEvent(id, image_path, data) ==
    [id |-> id, image_path |-> image_path, raw_text |-> data.raw_text,
     event_name |-> data.event_name, event_location |-> data.event_location,
     event_date |-> data.event_date, event_time |-> data.event_time,
     event_description |-> data.event_description, event_hosts |-> data.event_hosts]

\* the decimal digits of n, zero-padded to width
Pad(n, width) ==
    LET digits[k \in 0..width] ==
            IF k = 0 THEN ""
            ELSE digits[k - 1] \o Ch(DigitChars, ((n \div (10 ^ (width - k))) % 10) + 1)
    IN digits[width]

\* Event.to_dict: the date as strftime('%Y-%m-%d') writes it, None if unset;
\* raw_text is left out (created_at and google_event_id are not modelled)
to_dict(event) ==
    [id |-> event.id, image_path |-> event.image_path, event_name |-> event.event_name,
     event_location |-> event.event_location,
     event_date |-> IF event.event_date = NoDate THEN None
                    ELSE Pad(event.event_date.year, 4) \o "-"
                           \o Pad(event.event_date.month, 2) \o "-"
                           \o Pad(event.event_date.day, 2),
     event_time |-> event.event_time, event_description |-> event.event_description,
     event_hosts |-> event.event_hosts]

\* extract_event_info on a fresh processor (extracted_info is as __init__
\* left it when get_structured_data calls it), for each text the
\* recognizer returns; the variable infoOf holds this table from the start
InfoOf == [text \in PipelineTexts |-> ExtractEventInfo(text, NoInfo)]

\* get_structured_data, the call of extract_event_info after extract_text
\* has returned: the fields are extracted from raw_text
ExtractFields(r) ==
    /\ run[r].pc = "Cleaned"
    /\ run' = [run EXCEPT ![r].pc = "Extracted",
                          ![r].extracted_info = infoOf[run[r].raw_text]]
    /\ UNCHANGED <<files, uuids, events, foreign, extractVars, infoOf, last>>

\* NormalizeDate without the except clause of parse_date: the parser's
\* exception leaves get_structured_data
NormalizeDate_Raises(r, parsed) ==
    /\ run[r].pc = "Extracted"
    /\ IF Truthy(run[r].extracted_info.event_date) /\ parsed = NoDate
       THEN Raise(r, "ParserError")
       ELSE /\ run' = [run EXCEPT ![r].pc = "Dated",
                                  ![r].data = StructuredData(run[r].raw_text,
                                                             run[r].extracted_info, parsed)]
            /\ UNCHANGED events
    /\ UNCHANGED <<files, uuids, foreign, extractVars, infoOf, last>>

\* get_structured_data, the dictionary with parse_date(): parsed is what
\* dateutil makes of the date text, NoDate if it raises
NormalizeDate(r, parsed) ==
    /\ run[r].pc = "Extracted"
    /\ run' = [run EXCEPT ![r].pc = "Dated",
                          ![r].data = StructuredData(run[r].raw_text,
                                                     run[r].extracted_info, parsed)]
    /\ UNCHANGED <<files, uuids, events, foreign, extractVars, infoOf, last>>

\* the rest of upload_file: the Event row is added and committed and the
\* 200 response returned
Finish(r) ==
    /\ run[r].pc = "Dated"
    /\ LET new_event == NewEvent(Len(events) + 1, run[r].file_path, run[r].data)
       IN /\ events' = Append(events, new_event)
          /\ run' = [run EXCEPT ![r].pc = "Complete",
                                ![r].response = [status |-> 200, event_id |-> new_event.id,
                                                 extracted_data |-> to_dict(new_event)]]
    /\ UNCHANGED <<files, uuids, foreign, extractVars, infoOf, last>>

(***************************************************************************)
(* Extraction runs: a processor whose raw_text is any text made of up to   *)
(* MaxFrags fragments of one lexicon, on which extract_event_info runs.    *)
(***************************************************************************)
MaxFrags == 3

Lexicons ==
    [name |-> {"Hi", "Summer Rooftop Party", "a b c", "Rooftop Party", " ", "\n"},
     date |-> {"December 25, 2024", "3/4/25", "Friday, Dec 5th", " ", "\n", "x"},
     time |-> {"9:00 pm", "7PM", "8:30 - 10:30 pm", "6pm~9pm", " ", "1"},
     location |-> {"12 Main St", "at", " Club", "The Blue Bar", " ", "\n"},
     hosts |-> {"DJ Max", " featuring Luna", ", featuring Luna", "\nhosted by A&B",
                " ", "_"},
     description |-> {"Jazz Night Live Show\n", "Come to Jazz Night Live Show tonight\n",
                      "9 pm\n", "Doors open at 9 pm for all\n", "DJ Max\n", " "}]

\* the recognizer's text grows by one fragment
Recognize(frag) ==
    /\ stage = "recognizing"
    /\ nfrags < MaxFrags
    /\ nfrags' = nfrags + 1
    /\ raw_text' = raw_text \o frag
    /\ UNCHANGED <<lexicon, extracted_info, stage, recognized, returned, pipeVars, events,
                   infoOf, last>>

\* extract_event_info on the recognized text
ExtractInfo ==
    /\ stage = "recognizing"
    /\ extracted_info' = ExtractEventInfo(raw_text, extracted_info)
    /\ stage' = "extracted"
    /\ UNCHANGED <<lexicon, nfrags, raw_text, recognized, returned, pipeVars, events,
                   infoOf, last>>

\* the extraction of any recognized text; no request is in flight
InitExtract ==
    /\ lexicon \in DOMAIN Lexicons
    /\ nfrags = 0
    /\ raw_text = ""
    /\ extracted_info = NoInfo
    /\ stage = "recognizing"
    /\ InitPipe
    /\ events = <<>>
    /\ infoOf = InfoOf
    /\ last = NoUpdate
    /\ recognized = <<>>
    /\ returned = None

NextExtract ==
    \/ \E frag \in Lexicons[lexicon] : Recognize(frag)
    \/ ExtractInfo

SpecExtract == InitExtract /\ [][NextExtract]_vars

(***************************************************************************)
(* The upload requests, from an empty storage and an empty Event table.    *)
(* The processor of the extraction runs stands still.                      *)
(***************************************************************************)
Init ==
    /\ InitPipe
    /\ events = <<>>
    /\ infoOf = InfoOf
    /\ last = NoUpdate
    /\ recognized = <<>>
    /\ returned = None
    /\ lexicon = "name"
    /\ nfrags = 0
    /\ raw_text = ""
    /\ extracted_info = NoInfo
    /\ stage = "idle"

Next ==
    \E r \in Runs :
        \/ \E hasFile \in BOOLEAN, filename \in UploadNames, content \in Contents,
              uuid \in Uuids : Upload(r, hasFile, filename, content, uuid)
        \/ Decode(r)
        \/ WriteProcessed(r)
        \/ \E ok \in BOOLEAN, text \in PipelineTexts : Ocr(r, ok, text)
        \/ CheckExists(r)
        \/ Remove(r)
        \/ ExtractFields(r)
        \/ \E parsed \in ParsedDates \cup {NoDate} : NormalizeDate(r, parsed)
        \/ Finish(r)

Spec == Init /\ [][Next]_vars

\* what a request that has stored its file does next
Step(r) ==
    \/ Decode(r)
    \/ WriteProcessed(r)
    \/ \E ok \in BOOLEAN, text \in PipelineTexts : Ocr(r, ok, text)
    \/ CheckExists(r)
    \/ Remove(r)
    \/ ExtractFields(r)
    \/ \E parsed \in ParsedDates \cup {NoDate} : NormalizeDate(r, parsed)
    \/ Finish(r)

\* upload_file runs synchronously from file.save to its return: a request
\* that can take a step takes one
FairSpec == Init /\ [][Next]_vars /\ \A r \in Runs : WF_vars(Step(r))

(***************************************************************************)
(* Processor calls: one OCRProcessor on a stored image, whose methods      *)
(* extract_text, extract_event_info and get_structured_data are called in  *)
(* any order, any number of times.                                         *)
(***************************************************************************)
\* how many times the recognizer is called at most
MaxRecognitions == 3

\* what pytesseract.image_to_string returns
RecognizerTexts == {"", " \n", "Jazz Night\n9 pm"}

\* the image the processor was constructed with
ProcessorImage == UploadPath(StoredName("0a", "a.png"))

\* the state extract_text leaves: the transient image is written, the
\* recognizer returns text or raises (ok is FALSE), and only after it has
\* returned the transient image is removed; call is the method the caller
\* called.  [raised, raw_text, files, recognized]
AfterExtractText(call, ok, text) ==
    LET temp_path == ProcessedPath(ProcessorImage)
        written == [p \in DOMAIN files \cup {temp_path} |->
                      IF p = temp_path THEN [kind |-> "image", by |-> 1] ELSE files[p]]
    IN IF ok
       THEN [raised |-> FALSE, raw_text |-> text,
             files |-> [p \in DOMAIN written \ {temp_path} |-> written[p]],
             recognized |-> Append(recognized, [call |-> call, text |-> text])]
       ELSE [raised |-> TRUE, raw_text |-> raw_text, files |-> written,
             recognized |-> Append(recognized, [call |-> call, text |-> None])]

\* the values extracted_info has when extract_event_info is called
ProcessorPriors == {NoInfo} \cup {ExtractEventInfo(text, NoInfo) : text \in RecognizerTexts}

\* extract_event_info's result for each text and each extracted_info it
\* starts from; the variable infoOf holds this table from the start
ProcessorInfoOf ==
    [c \in RecognizerTexts \X ProcessorPriors |-> ExtractEventInfo(c[1], c[2])]

\* the state as it is, no call of extract_text made
NoExtractText ==
    [raised |-> FALSE, raw_text |-> raw_text, files |-> files, recognized |-> recognized]

\* the state extract_event_info leaves: extract_text runs first if raw_text
\* is None or empty, then the fields are extracted from raw_text into the
\* extracted_info of before.  The record of AfterExtractText with
\* extracted_info
AfterExtractEventInfo(call, ok, text) ==
    LET read == IF ~Truthy(raw_text) THEN AfterExtractText(call, ok, text)
                ELSE NoExtractText
        info == IF read.raised THEN extracted_info
                ELSE infoOf[<<read.raw_text, extracted_info>>]
    IN [raised |-> read.raised, raw_text |-> read.raw_text, files |-> read.files,
        recognized |-> read.recognized, extracted_info |-> info]

\* the recognizer is called at most MaxRecognitions times
MayRecognize == Len(recognized) < MaxRecognitions

\* a call of extract_text()
CallExtractText(ok, text) ==
    /\ stage = "processor"
    /\ MayRecognize
    /\ LET after == AfterExtractText("extract_text", ok, text)
       IN /\ raw_text' = after.raw_text
          /\ files' = after.files
          /\ recognized' = after.recognized
    /\ UNCHANGED <<lexicon, nfrags, extracted_info, stage, returned, uuids, run, foreign,
                   events, infoOf, last>>

\* a call of extract_event_info()
CallExtractEventInfo(ok, text) ==
    /\ stage = "processor"
    /\ Truthy(raw_text) \/ MayRecognize
    /\ LET after == AfterExtractEventInfo("extract_event_info", ok, text)
       IN /\ raw_text' = after.raw_text
          /\ files' = after.files
          /\ recognized' = after.recognized
          /\ extracted_info' = after.extracted_info
    /\ UNCHANGED <<lexicon, nfrags, stage, returned, uuids, run, foreign, events, infoOf,
                   last>>

\* a call of get_structured_data(): extract_event_info runs first if there
\* is no event name; parsed is what dateutil makes of the date text
CallGetStructuredData(ok, text, parsed) ==
    /\ stage = "processor"
    /\ Truthy(extracted_info.event_name) \/ Truthy(raw_text) \/ MayRecognize
    /\ LET after == IF ~Truthy(extracted_info.event_name)
                    THEN AfterExtractEventInfo("get_structured_data", ok, text)
                    ELSE [raised |-> FALSE, raw_text |-> raw_text, files |-> files,
                          recognized |-> recognized, extracted_info |-> extracted_info]
       IN /\ raw_text' = after.raw_text
          /\ files' = after.files
          /\ recognized' = after.recognized
          /\ extracted_info' = after.extracted_info
          /\ returned' = IF after.raised THEN returned
                         ELSE StructuredData(after.raw_text, after.extracted_info, parsed)
    /\ UNCHANGED <<lexicon, nfrags, stage, uuids, run, foreign, events, infoOf, last>>

\* OCRProcessor(image_path) on a stored image
InitProcessor ==
    /\ lexicon = "name"
    /\ nfrags = 0
    /\ raw_text = None
    /\ extracted_info = NoInfo
    /\ stage = "processor"
    /\ recognized = <<>>
    /\ returned = None
    /\ files = [p \in {ProcessorImage} |-> [kind |-> "image", by |-> 1]]
    /\ uuids = {"0a"}
    /\ run = [r \in Runs |-> NewRun]
    /\ foreign = {}
    /\ events = <<>>
    /\ infoOf = ProcessorInfoOf
    /\ last = NoUpdate

NextProcessor ==
    \/ \E ok \in BOOLEAN, text \in RecognizerTexts : CallExtractText(ok, text)
    \/ \E ok \in BOOLEAN, text \in RecognizerTexts : CallExtractEventInfo(ok, text)
    \/ \E ok \in BOOLEAN, text \in RecognizerTexts, parsed \in ParsedDates \cup {NoDate} :
          CallGetStructuredData(ok, text, parsed)

SpecProcessor == InitProcessor /\ [][NextProcessor]_vars

(***************************************************************************)
(* update_event: datetime.strptime(value, '%Y-%m-%d') and the handler.     *)
(***************************************************************************)
NonZeroDigit == Digit \ {"0"}

\* the regular expression _strptime builds for '%Y-%m-%d':
\* (?P<Y>\d\d\d\d)-(?P<m>1[0-2]|0[1-9]|[1-9])-(?P<d>3[0-1]|[1-2]\d|0[1-9]|[1-9]| [1-9])
strptime_regex ==
    << GrpOpen(1), Rep(Digit, 4, 4), GrpClose(1), Lit("-"),
       GrpOpen(2),
       Alt(<< <<Lit("1"), Rep({"0", "1", "2"}, 1, 1)>>,
              <<Lit("0"), Rep(NonZeroDigit, 1, 1)>>,
              <<Rep(NonZeroDigit, 1, 1)>> >>),
       GrpClose(2), Lit("-"),
       GrpOpen(3),
       Alt(<< <<Lit("3"), Rep({"0", "1"}, 1, 1)>>,
              <<Rep({"1", "2"}, 1, 1), Rep(Digit, 1, 1)>>,
              <<Lit("0"), Rep(NonZeroDigit, 1, 1)>>,
              <<Rep(NonZeroDigit, 1, 1)>>,
              <<Lit(" "), Rep(NonZeroDigit, 1, 1)>> >>),
       GrpClose(3) >>

DigitValue == [c \in Digit |-> CHOOSE n \in 0..9 : Ch(DigitChars, n + 1) = c]

RECURSIVE ToInt(_)
\* int(s) for a string of digits, a leading blank allowed
ToInt(s) ==
    IF s = "" THEN 0
    ELSE IF Ch(s, Len(s)) = " " THEN ToInt(SubSeq(s, 1, Len(s) - 1))
    ELSE 10 * ToInt(SubSeq(s, 1, Len(s) - 1)) + DigitValue[Ch(s, Len(s))]

IsLeap(y) == y % 4 = 0 /\ (y % 100 # 0 \/ y % 400 = 0)

DaysInMonth(y, m) ==
    IF m = 2 THEN (IF IsLeap(y) THEN 29 ELSE 28)
    ELSE IF m \in {4, 6, 9, 11} THEN 30 ELSE 31

\* datetime.date(y, m, d) accepts the triple
ValidDate(y, m, d) ==
    y >= 1 /\ y <= 9999 /\ m >= 1 /\ m <= 12 /\ d >= 1 /\ d <= DaysInMonth(y, m)

\* datetime.strptime(value, '%Y-%m-%d').date(): [ok, date].  It raises
\* (ok is FALSE) for a value that is no string, that the expression does
\* not match from its start, that goes on behind the match, or that names
\* no calendar date.
Strptime(value) ==
    IF value = None THEN [ok |-> FALSE]
    ELSE LET found == MatchHere(strptime_regex, value, 1, NoGroups)
         IN IF ~found.ok \/ found.e # Len(value) + 1 THEN [ok |-> FALSE]
            ELSE LET y == ToInt(SubSeq(value, found.cap[1][1], found.cap[1][2] - 1))
                     m == ToInt(SubSeq(value, found.cap[2][1], found.cap[2][2] - 1))
                     d == ToInt(SubSeq(value, found.cap[3][1], found.cap[3][2] - 1))
                 IN IF ValidDate(y, m, d) THEN [ok |-> TRUE, date |-> Date(y, m, d)]
                    ELSE [ok |-> FALSE]

\* OverrideDate that clears the stored date when the value does not parse
OverrideDate_ClearOnError(stored, value) ==
    IF Strptime(value).ok THEN Strptime(value).date ELSE NoDate

\* try: event.event_date = strptime(...).date()  except: pass
OverrideDate(stored, value) ==
    IF Strptime(value).ok THEN Strptime(value).date ELSE stored

\* the keys update_event copies as they are
PlainKeys == {"event_name", "event_location", "event_time", "event_description",
              "event_hosts"}

\* the Event row after the fields of data were applied
Updated(event, data) ==
    [k \in DOMAIN event |->
        IF k \in PlainKeys /\ k \in DOMAIN data THEN data[k]
        ELSE IF k = "event_date" /\ k \in DOMAIN data
             THEN OverrideDate(event.event_date, data.event_date)
             ELSE event[k]]

\* the primary keys requests ask for
EventIds == 1..2

\* the JSON bodies of the update requests; None is JSON null
Overrides == {"2024-12-25", "2024-1-5", "2024-12- 5", "2024-02-30", "2023-02-29",
              "12/25/2024", "2024-12-25 ", "TBD", "", None}

UpdateBodies ==
    {[event_date |-> o] : o \in Overrides}
      \cup {[event_name |-> "Winter Gala", event_date |-> o] : o \in {"2024-1-5", "TBD"}}
      \cup {[event_hosts |-> "Zed"]}

\* PUT /api/events/<event_id>
update_event(event_id, data) ==
    /\ IF event_id \notin 1..Len(events)
       THEN /\ last' = [status |-> 404, event_id |-> event_id, data |-> data]
            /\ UNCHANGED events
       ELSE LET event == Updated(events[event_id], data)
            IN /\ events' = [events EXCEPT ![event_id] = event]
               /\ last' = [status |-> 200, event_id |-> event_id, data |-> data,
                           before |-> events[event_id], event |-> to_dict(event)]
    /\ UNCHANGED <<pipeVars, extractVars, infoOf>>

\* the Event rows an upload leaves, made from the texts the recognizer returns
StoredEvents ==
    {NewEvent(1, UploadPath(StoredName("0a", "a.png")),
              StructuredData(text, InfoOf[text], parsed)) :
        text \in PipelineTexts, parsed \in ParsedDates \cup {NoDate}}

InitUpdate ==
    /\ InitPipe
    /\ \E event \in StoredEvents : events = <<event>>
    /\ infoOf = InfoOf
    /\ last = NoUpdate
    /\ recognized = <<>>
    /\ returned = None
    /\ lexicon = "name"
    /\ nfrags = 0
    /\ raw_text = ""
    /\ extracted_info = NoInfo
    /\ stage = "idle"

NextUpdate == \E event_id \in EventIds, data \in UpdateBodies : update_event(event_id, data)

\* the update requests on a table the uploads have filled
SpecUpdate == InitUpdate /\ [][NextUpdate]_vars

(***************************************************************************)
(* Notions the properties are stated with.                                 *)
(***************************************************************************)
\* the positions at which sub occurs in s
Occurrences(s, sub) ==
    {i \in 1..(Len(s) - Len(sub) + 1) : SubSeq(s, i, i + Len(sub) - 1) = sub}

\* sub is a literal contiguous substring of s
Contains(s, sub) == Occurrences(s, sub) # {}

Least(S) == CHOOSE x \in S : \A y \in S : x <= y

\* no leading and no trailing whitespace
Trimmed(s) == s = "" \/ (Ch(s, 1) \notin Space /\ Ch(s, Len(s)) \notin Space)

\* a non-empty trimmed literal substring of text
TrimmedPieceOf(v, text) == v # "" /\ Trimmed(v) /\ Contains(text, v)

\* the positions of text at which pattern p matches
MatchStarts(p, text) ==
    {i \in 1..(Len(text) + 1) : MatchHere(p.rs, text, i, NoGroups).ok}

\* the match of p that starts leftmost in text
LeftmostMatch(p, text) ==
    LET i == Least(MatchStarts(p, text))
    IN SubSeq(text, i, MatchHere(p.rs, text, i, NoGroups).e - 1)

\* the families of patterns that match somewhere in text
FamiliesIn(patterns, text) ==
    {k \in 1..Len(patterns) : MatchStarts(patterns[k], text) # {}}

\* the leftmost match of the first family that matches anywhere, else None
PriorityMatch(patterns, text) ==
    IF FamiliesIn(patterns, text) = {} THEN None
    ELSE LeftmostMatch(patterns[Least(FamiliesIn(patterns, text))], text)

\* the number of words of a line: the places where a word begins
WordCount(line) ==
    Cardinality({i \in 1..Len(line) :
                   Ch(line, i) \notin Space /\ (i = 1 \/ Ch(line, i - 1) \in Space)})

Extracted == stage = "extracted"

(***************************************************************************)
(* C4.  Hosts extraction collects every match of the four patterns and     *)
(* returns the captured names joined by ", " in pattern order; any text    *)
(* containing both "DJ Max" and "featuring Luna" yields event_hosts =      *)
(* "Max, Luna", and event_hosts is absent when no pattern matches.         *)
(***************************************************************************)
C4_HostsOfDjMaxFeaturingLuna ==
    Extracted =>
        /\ (Contains(raw_text, "DJ Max") /\ Contains(raw_text, "featuring Luna"))
              => extracted_info.event_hosts = "Max, Luna"
        /\ FamiliesIn(host_patterns, raw_text) = {} => extracted_info.event_hosts = None

(***************************************************************************)
(* C5.  The extracted date text is the textually first match of the first  *)
(* of the three date families that matches anywhere in RawText, whatever   *)
(* the textual position of the matches of later families, and it is absent *)
(* when no family matches.                                                 *)
(***************************************************************************)
C5_DatePriority ==
    Extracted => extracted_info.event_date = PriorityMatch(date_patterns, raw_text)

\* a numeric date stands before a month-name date, and the month-name date won
C5_Witness ==
    /\ Extracted
    /\ {1, 2} \subseteq FamiliesIn(date_patterns, raw_text)
    /\ Least(MatchStarts(date_patterns[2], raw_text))
          < Least(MatchStarts(date_patterns[1], raw_text))
    /\ extracted_info.event_date = LeftmostMatch(date_patterns[1], raw_text)

(***************************************************************************)
(* C6.  event_time is the textually first match of the first of the four   *)
(* time families that matches anywhere in RawText; whenever RawText holds  *)
(* a single-time H:MM am/pm match, event_time is the first such match and  *)
(* not a range.                                                            *)
(***************************************************************************)
IsRange(v) ==
    \/ (MatchStarts(time_patterns[3], v) # {} /\ LeftmostMatch(time_patterns[3], v) = v)
    \/ (MatchStarts(time_patterns[4], v) # {} /\ LeftmostMatch(time_patterns[4], v) = v)

C6_TimePriority ==
    Extracted =>
        /\ extracted_info.event_time = PriorityMatch(time_patterns, raw_text)
        /\ MatchStarts(time_patterns[1], raw_text) # {} =>
              /\ extracted_info.event_time = LeftmostMatch(time_patterns[1], raw_text)
              /\ ~IsRange(extracted_info.event_time)

\* the text holds an H:MM-H:MM range and the single time was extracted
C6_Witness ==
    /\ Extracted
    /\ {1, 3} \subseteq FamiliesIn(time_patterns, raw_text)
    /\ extracted_info.event_time = LeftmostMatch(time_patterns[1], raw_text)
    /\ extracted_info.event_time # LeftmostMatch(time_patterns[3], raw_text)

(***************************************************************************)
(* C7.  event_name is the first non-empty trimmed line of RawText with     *)
(* more than two words and more than ten characters; if no line qualifies  *)
(* it is the first non-empty trimmed line; if RawText has no non-empty     *)
(* line it is absent.                                                      *)
(***************************************************************************)
Qualifying(lines) == {k \in 1..Len(lines) : WordCount(lines[k]) > 2 /\ Len(lines[k]) > 10}

C8_FieldsAreTrimmedSubstrings ==
    Extracted =>
        \A f \in {"event_name", "event_location", "event_date", "event_time", "event_hosts"} :
            extracted_info[f] = None \/ TrimmedPieceOf(extracted_info[f], raw_text)

\* the names that event_hosts joins: no capture holds a comma, so they are
\* the pieces between the ", " separators
HostPieces(hosts) ==
    LET parts == SplitOn(hosts, ",")
    IN [k \in 1..Len(parts) |->
          IF k > 1 /\ parts[k] # "" /\ Ch(parts[k], 1) = " " THEN Tail(parts[k])
          ELSE parts[k]]

(***************************************************************************)
(* C8, as amended.  event_name, the date text and event_time are absent or *)
(* a non-empty string with no leading or trailing whitespace that occurs   *)
(* literally in RawText; event_location is absent or a non-empty literal   *)
(* substring of RawText; event_hosts is absent or the ", "-join of one or  *)
(* more non-empty literal substrings of RawText.                           *)
(***************************************************************************)
C8_FieldsDrawnFromText ==
    Extracted =>
        /\ \A f \in {"event_name", "event_date", "event_time"} :
              extracted_info[f] = None \/ TrimmedPieceOf(extracted_info[f], raw_text)
        /\ \/ extracted_info.event_location = None
           \/ /\ extracted_info.event_location # ""
              /\ Contains(raw_text, extracted_info.event_location)
        /\ \/ extracted_info.event_hosts = None
           \/ LET pieces == HostPieces(extracted_info.event_hosts)
              IN \A k \in 1..Len(pieces) : pieces[k] # "" /\ Contains(raw_text, pieces[k])

\* two hosts were joined into a string that RawText does not hold, beside
\* a name that it does hold
C8_Witness ==
    /\ Extracted
    /\ extracted_info.event_hosts # None
    /\ Len(HostPieces(extracted_info.event_hosts)) > 1
    /\ ~Contains(raw_text, extracted_info.event_hosts)
    /\ extracted_info.event_name # None
    /\ TrimmedPieceOf(extracted_info.event_name, raw_text)

(***************************************************************************)
(* The working copy of RawText of the Description Synthesizer.             *)
(***************************************************************************)
\* the five field values in the order they are removed
UsedFields == <<"event_name", "event_date", "event_time", "event_location", "event_hosts">>

\* the occurrences of old that a scan from the left meets, each scan going
\* on behind the occurrence before
ScanHits(s, old) ==
    LET hit[p \in 0..Len(s)] ==
            /\ p \in Occurrences(s, old)
            /\ \A q \in 1..(p - 1) : q + Len(old) > p => ~hit[q]
    IN {p \in 1..Len(s) : hit[p]}

\* r is s with the characters of the occurrences hits of old left out
LeftOut(s, old, hits, r) ==
    LET covered == {p \in 1..Len(s) : \E h \in hits : h <= p /\ p < h + Len(old)}
    IN /\ Len(r) = Len(s) - Cardinality(covered)
       /\ \A p \in (1..Len(s)) \ covered :
             Ch(r, p - Cardinality({c \in covered : c < p})) = Ch(s, p)

\* the working copy after the first k field values were removed by the code
Remaining[k \in 0..Len(UsedFields)] ==
    IF k = 0 THEN raw_text
    ELSE IF Truthy(extracted_info[UsedFields[k]])
         THEN Replace(Remaining[k - 1], extracted_info[UsedFields[k]])
         ELSE Remaining[k - 1]

\* the working copy after the first occurrence only of each of the first k
\* field values was removed
FirstRemoved[k \in 0..Len(UsedFields)] ==
    IF k = 0 THEN raw_text
    ELSE LET v == extracted_info[UsedFields[k]]
             s == FirstRemoved[k - 1]
         IN IF Truthy(v) /\ Contains(s, v)
            THEN SubSeq(s, 1, Least(Occurrences(s, v)) - 1)
                   \o SubSeq(s, Least(Occurrences(s, v)) + Len(v), Len(s))
            ELSE s

\* the description built from a working copy: its non-empty trimmed lines
\* of more than three words joined by single spaces, None if there is none
DescriptionFrom(rest) ==
    LET Long(line) == WordCount(line) > 3
        description == Join(SelectSeq(NonEmptyLines(rest), Long), " ")
    IN IF description = "" THEN None ELSE description

(***************************************************************************)
(* C10.  The Description Synthesizer removes, for each non-absent field    *)
(* value in the order name, date, time, location, hosts, only the first    *)
(* literal occurrence of that value from the working copy of RawText; a    *)
(* later occurrence stays in the text the description lines are built      *)
(* from.                                                                   *)
(***************************************************************************)
C10_OnlyFirstOccurrenceRemoved ==
    Extracted =>
        extracted_info.event_description = DescriptionFrom(FirstRemoved[Len(UsedFields)])

(***************************************************************************)
(* C10, as amended.  For each non-absent field value in the order name,    *)
(* date, time, location, hosts, every occurrence of the value that a scan  *)
(* from the left meets is removed from the working copy; the description   *)
(* is built from what is left.                                             *)
(***************************************************************************)
C10_EveryOccurrenceRemoved ==
    Extracted =>
        /\ \A k \in 1..Len(UsedFields) :
              LET v == extracted_info[UsedFields[k]]
              IN IF Truthy(v)
                 THEN LeftOut(Remaining[k - 1], v, ScanHits(Remaining[k - 1], v), Remaining[k])
                 ELSE Remaining[k] = Remaining[k - 1]
        /\ extracted_info.event_description = DescriptionFrom(Remaining[Len(UsedFields)])

\* the name stands twice in RawText and the second occurrence is missing
\* from the description
C10_Witness ==
    /\ Extracted
    /\ extracted_info.event_name # None
    /\ Cardinality(Occurrences(raw_text, extracted_info.event_name)) > 1
    /\ extracted_info.event_description # DescriptionFrom(FirstRemoved[Len(UsedFields)])

(***************************************************************************)
(* The upload pipeline (Spec)                                              *)
(***************************************************************************)
Terminal(r) == run[r].pc \in {"Complete", "failed"}

\* C1 (as stated): in every terminal state of a run, completed or failed,
\* the <base>_processed.png file derived from that run's image is not on
\* storage.
C1_NoTransientFileRemains ==
    \A r \in Runs : Terminal(r) => ~Exists(ProcessedPath(run[r].image_path))

\* C2: a run whose image decoding or text recognition failed answers with
\* an error and no event, and no Event row, partial or whole, carries its
\* image; every Event row was created by a run that went through the whole
\* pipeline and answered 200 with that event.
C2_EventOrError ==
    /\ \A r \in Runs :
          run[r].failure # None =>
             /\ run[r].pc = "failed"
             /\ run[r].response.status = 500
             /\ DOMAIN run[r].response = {"status", "error"}
             /\ \A k \in 1..Len(events) : events[k].image_path # run[r].file_path
    /\ \A k \in 1..Len(events) :
          \E r \in Runs :
             /\ run[r].pc = "Complete"
             /\ run[r].failure = None
             /\ run[r].raw_text # None
             /\ ~Exists(run[r].temp_path)
             /\ events[k].image_path = run[r].file_path
             /\ DOMAIN events[k] = DOMAIN NewEvent(0, "", StructuredData("", NoInfo, NoDate))
             /\ run[r].response.status = 200
             /\ run[r].response.extracted_data = to_dict(events[k])
    /\ \A r \in Runs : run[r].pc = "Complete" => \E k \in 1..Len(events) :
                                                   events[k].image_path = run[r].file_path

\* one upload failed in the recognizer, one in decoding or the other way
\* round, or one of them went through and left its event
C2_Witness ==
    \E r, s \in Runs :
       /\ run[r].failure = "OcrFailure"
       /\ run[s].pc = "Complete"
       /\ Len(events) = 1
       /\ events[1].event_name = "Jazz Night Live Show"

\* the run has derived its paths
HasPaths(r) == run[r].image_path # None

\* C3: any two runs derive transient paths that differ from each other
\* and from every source image path, and no run writes, reads or removes a
\* file another run wrote.
C3_TransientPathsDisjoint ==
    /\ foreign = {}
    /\ \A r, s \in Runs :
          HasPaths(r) /\ HasPaths(s) =>
             /\ ProcessedPath(run[r].image_path) # run[s].image_path
             /\ r # s => /\ run[r].image_path # run[s].image_path
                         /\ ProcessedPath(run[r].image_path) # ProcessedPath(run[s].image_path)
    /\ \A r \in Runs : run[r].temp_path # None =>
                          run[r].temp_path = ProcessedPath(run[r].image_path)

\* two uploads with the same base name, a.png and a.jpg, are both between
\* writing and removing their transient file
C3_Witness ==
    \E u1, u2 \in Uuids :
       /\ run[1].image_path = UploadPath(StoredName(u1, "a.png"))
       /\ run[2].image_path = UploadPath(StoredName(u2, "a.jpg"))
       /\ run[1].pc \in {"Normalized", "Recognized", "Removing"}
       /\ run[2].pc \in {"Normalized", "Recognized", "Removing"}
       /\ Exists(run[1].temp_path)
       /\ Exists(run[2].temp_path)

(***************************************************************************)
(* The update requests (SpecUpdate)                                        *)
(***************************************************************************)
\* the update request answered last went to an existing event and carried
\* an event_date
DateOverridden == last.status = 200 /\ "event_date" \in DOMAIN last.data

AllDigits(s) == \A i \in 1..Len(s) : Ch(s, i) \in Digit

\* a YYYY-MM-DD string: four, two and two digits that name a calendar date
WellFormed(value) ==
    /\ value # None
    /\ Len(value) = 10
    /\ Ch(value, 5) = "-" /\ Ch(value, 8) = "-"
    /\ AllDigits(SubSeq(value, 1, 4) \o SubSeq(value, 6, 7) \o SubSeq(value, 9, 10))
    /\ ValidDate(ToInt(SubSeq(value, 1, 4)), ToInt(SubSeq(value, 6, 7)),
                 ToInt(SubSeq(value, 9, 10)))

\* C9 (as stated): an event_date override that is not a well-formed
\* YYYY-MM-DD string leaves the stored date unchanged and the request
\* succeeds; a well-formed one becomes the stored date.
C9_MalformedOverrideIgnored ==
    DateOverridden =>
       LET value == last.data.event_date
           stored == events[last.event_id].event_date
       IN IF WellFormed(value)
          THEN stored = Date(ToInt(SubSeq(value, 1, 4)), ToInt(SubSeq(value, 6, 7)),
                             ToInt(SubSeq(value, 9, 10)))
          ELSE stored = last.before.event_date

\* the years of the dates the requests name
Years == 2023..2024

\* the ways '%Y-%m-%d' lets a date be written: the year in four digits, the
\* month and the day in two digits or, below ten, in one; the day below
\* ten also as a blank and a digit
Writings(d) ==
    {Pad(d.year, 4) \o "-" \o m \o "-" \o dd :
        m \in {Pad(d.month, 2)} \cup (IF d.month < 10 THEN {Pad(d.month, 1)} ELSE {}),
        dd \in {Pad(d.day, 2)}
                 \cup (IF d.day < 10 THEN {Pad(d.day, 1), " " \o Pad(d.day, 1)} ELSE {})}

\* the calendar dates that value is a writing of
Readings(value) ==
    {d \in {Date(y, m, dd) : y \in Years, m \in 1..12, dd \in 1..31} :
        ValidDate(d.year, d.month, d.day) /\ value \in Writings(d)}

\* C9 (amended): a request for an existing event succeeds, and only a
\* request for none is answered 404; an event_date override that is no
\* writing of a calendar date leaves the stored date unchanged; one that
\* is a writing of a date, zero-padded or not, makes that date the stored
\* one, and the response shows it zero-padded.
C9_OverrideFollowsStrptime ==
    /\ last.status \in {0, 200, 404}
    /\ last.status = 404 <=> (last.status # 0 /\ last.event_id \notin 1..Len(events))
    /\ DateOverridden =>
          LET value == last.data.event_date
              stored == events[last.event_id].event_date
          IN /\ IF Readings(value) = {} THEN stored = last.before.event_date
                ELSE stored \in Readings(value)
             /\ last.event = to_dict(events[last.event_id])
             /\ stored # NoDate => stored \in Readings(last.event.event_date)

\* a date that does not exist is sent to an event whose stored date an
\* earlier override without zero-padding had set: it stays
C9_Witness ==
    /\ DateOverridden
    /\ last.data.event_date = "2024-02-30"
    /\ last.before.event_date = Date(2024, 1, 5)
    /\ events[last.event_id].event_date = Date(2024, 1, 5)
    /\ last.event.event_date = "2024-01-05"

(***************************************************************************)
(* The processor calls (SpecProcessor)                                     *)
(***************************************************************************)
\* a later call of extract_event_info or get_structured_data invoked the
\* recognizer after it had returned a text
RecognizedAgain ==
    \E i, j \in 1..Len(recognized) :
       /\ i < j
       /\ recognized[i].text # None
       /\ recognized[j].call \in {"extract_event_info", "get_structured_data"}

\* C11 (as stated): once the recognizer has returned a text, the empty
\* string included, no later call of extract_event_info or
\* get_structured_data invokes the recognizer again.
C11_RawTextProducedOnce == ~RecognizedAgain

(***************************************************************************)
(* The stages of a pipeline run (FairSpec)                                 *)
(***************************************************************************)
\* the stage of the pipeline a position of upload_file belongs to: the
\* normalized image exists from Normalized on, raw_text from Recognized on
StageOf(pc) ==
    CASE pc \in {"Created", "Decoded"} -> "Created"
      [] pc = "Normalized" -> "Normalized"
      [] pc \in {"Recognized", "Removing", "Cleaned"} -> "Recognized"
      [] pc = "Extracted" -> "Extracted"
      [] pc = "Dated" -> "Dated"
      [] pc = "Complete" -> "Complete"
      [] pc = "failed" -> "Failed"
      [] OTHER -> "None"

StageOrder == <<"Created", "Normalized", "Recognized", "Extracted", "Dated", "Complete">>

\* the place of a stage in StageOrder, 0 before Created
Rank(st) == IF \E k \in 1..Len(StageOrder) : StageOrder[k] = st
            THEN CHOOSE k \in 1..Len(StageOrder) : StageOrder[k] = st
            ELSE 0

\* the Event rows made from the image of run r
EventsOf(r) == {k \in 1..Len(events) : events[k].image_path = run[r].file_path}

\* a change of stage of run r goes to the next stage of StageOrder, or to
\* Failed from Created, Normalized or Recognized
ForwardStep(r) ==
    LET a == StageOf(run[r].pc)
        b == StageOf(run'[r].pc)
    IN a # b =>
          IF b = "Failed" THEN a \in {"Created", "Normalized", "Recognized"}
          ELSE a # "Failed" /\ Rank(b) = Rank(a) + 1

=============================================================================
